---- MODULE Spec2Model ----
(***************************************************************************)
(* Threader AI - the Reddit collector (src/src/scrapers/redditScraper.js). *)
(*                                                                         *)
(* The three exported entry points (smartScrape, fetchSubredditPosts,      *)
(* fetchRedditMentions) and the request helper fetchRedditJson are modelled*)
(* as one state machine with an explicit call chain                        *)
(*     smartScrape -> collector -> fetchRedditJson -> upstream             *)
(* The upstream source answers every request with any outcome (429, 403,   *)
(* another HTTP error, a network error, an unreadable body, or a page of   *)
(* any content with or without a cursor).  fetchRedditJson returns the     *)
(* promise response.json(): the body is read when the caller awaits it.    *)
(*                                                                         *)
(* Strings are sequences of one-character strings; an optional JSON field  *)
(* is <<>> when absent and <<v>> when present.                             *)
(***************************************************************************)
EXTENDS Integers, Sequences, FiniteSets, TLC

VARIABLES
    entry,              \* the exported function that was called
    \* ---- fetchRedditJson (one call) ----
    jpc,                \* "idle" | "try" | "wait" | "done"
    attempt,            \* loop counter of the retry loop
    jret,               \* what the call returned / threw
    jlog,               \* events of the current call: requests, responses, sleeps
    reqAfter,           \* the cursor put into the URL of the current call
    \* ---- fetchSubredditPosts / fetchRedditMentions (one call) ----
    ckind,              \* "none" | "sub" | "mentions"
    cpc,                \* "idle" | "loop" | "await" | "ret" | "done"
    cname,              \* subredditName, resp. companyName
    maxItems,
    oneDayAgoTimestamp,
    allPosts,
    after,
    fetchCount,
    data,               \* the payload of the last page that was read
    lastOk,             \* the last fetchRedditJson of this call returned a payload
    cret,               \* result of the call
    pageReqs,           \* page requests issued by this call (history)
    \* ---- smartScrape ----
    spc,                \* "idle" | "discover" | "loop" | "awaitSub" | "wide" | "done"
    company,
    opts,               \* options of smartScrape and the environment (API key)
    quickList,          \* what the heuristic lookup holds for this company
    llmOut,             \* what the text-generation service answered
    discThrew,          \* discoverSubreddits threw (history)
    discovery,
    subIdx,
    allMentions,
    subredditResults,
    sret,               \* result of smartScrape
    attempted,          \* names of the sources handed to the collector, in order (history)
    kept,               \* per attempted source, the posts smartScrape kept (history)
    exhausted,          \* sources with a request still 429/403 on the last attempt (history)
    \* ---- the run ----
    now,                \* wall clock in ms when the collector reads it
    nreq,               \* upstream requests sent in the whole run (history)
    gap,                \* the sleeps of the run since its last upstream request (history)
    inflight,           \* upstream requests sent and not yet answered (history)
    \* ---- Synthesizer, Comparer, assistant fallback ----
    ypc,                \* "idle" | "ready" | "synthesized" | "rerun" | "compared" | "asked"
    recs,               \* the classified records of the run
    report,             \* the SynthesisReport of the run
    rerun,              \* the report of a second run of the Synthesizer on the same records
    prior,              \* the prior Snapshot handed to the Comparer, if any
    comparison,         \* the Comparison
    answer,             \* what the assistant fallback said about one focus area
    \* ---- useDemoMode (frontend/src/hooks/useDemoMode) ----
    params,             \* reportUuid of the route and ?company of the URL
    state,              \* the DemoState
    pollIntervalRef,    \* id of the interval in the ref, 0 for null
    elapsedIntervalRef,
    timers,             \* the intervals that were set and not cleared
    sessions,           \* calls of startPolling so far (history)
    pending,            \* requests of the hook that were sent and not yet answered
    db,                 \* the rows of public.snapshots
    demoConfig,         \* what /demo-config.json holds
    \* ---- AskThreaderPanel ----
    isOpen,
    messages,
    isLoading,
    currentFeedback,
    selectedFeedback,   \* the state of DashboardV2 passed as a prop
    asks,               \* calls of askThreader that have not settled
    replies,            \* the settled calls of askThreader (history)
    asked               \* questions submitted so far (history)

jvars == <<jpc, attempt, jret, jlog, reqAfter>>
cvars == <<ckind, cpc, cname, maxItems, oneDayAgoTimestamp, allPosts, after,
           fetchCount, data, lastOk, cret, pageReqs>>
svars == <<spc, company, opts, quickList, llmOut, discThrew, discovery, subIdx,
           allMentions, subredditResults, sret, attempted, kept>>
hvars == <<gap, inflight>>
yvars == <<ypc, recs, report, rerun, prior, comparison, answer>>
dvars == <<params, state, pollIntervalRef, elapsedIntervalRef, timers, sessions, pending,
           db, demoConfig>>
pvars == <<isOpen, messages, isLoading, currentFeedback, selectedFeedback, asks, replies,
           asked>>
frontend == <<dvars, pvars>>
\* what the scraper leaves alone, and what the rest of the pipeline leaves alone
nonScraper == <<yvars, frontend>>
scraper == <<jvars, cvars, svars, exhausted, now, nreq, hvars>>
vars == <<entry, scraper, nonScraper>>

----------------------------------------------------------------------------
(* Bounds of the model *)

\* the longest page the upstream source sends
MaxPageLen == 2

(* Program constants *)

RATE_LIMIT_DELAY == 2000
DefaultRetries == 3
RateLimitCooldown == 30000
BlockedCooldown == 10000
ErrorBackoff == 5000
JitterMin == 500
PageLimit == 25
WideMaxItems == 50
WindowHours == 24

----------------------------------------------------------------------------
(* Optional values and strings *)

None == <<>>
Some(v) == <<v>>
IsSome(o) == Len(o) = 1

\* JavaScript truthiness of an optional string / number
TruthyStr(o) == Len(o) = 1 /\ Len(o[1]) > 0
TruthyNum(o) == Len(o) = 1 /\ o[1] # 0

\* a || b on optional strings, a || b || dflt on numbers
OrStr(a, b) == IF TruthyStr(a) THEN a ELSE b
OrNum(a, b, dflt) == IF TruthyNum(a) THEN a[1] ELSE IF TruthyNum(b) THEN b[1] ELSE dflt

\* `${x}` of an optional string: an absent value prints as "undefined"
Interp(o) == IF IsSome(o) THEN o[1] ELSE <<"undefined">>

LowerChar(c) ==
    CASE c = "A" -> "a"
      [] c = "B" -> "b"
      [] OTHER -> c

ToLowerCase(s) == [i \in 1..Len(s) |-> LowerChar(s[i])]

\* String.prototype.includes
Includes(s, t) ==
    \E i \in 1..(Len(s) - Len(t) + 1) : SubSeq(s, i, i + Len(t) - 1) = t

Min(a, b) == IF a <= b THEN a ELSE b

\* slice forgotten: the whole array is returned
SliceTo_Whole(s, n) == s

\* Array.prototype.slice(0, n)
SliceTo(s, n) == SubSeq(s, 1, Min(n, Len(s)))

\* Math.ceil(a / b) for a >= 0, b > 0
CeilDiv(a, b) == (a + b - 1) \div b

MapSeq(s, F(_)) == [i \in 1..Len(s) |-> F(s[i])]

----------------------------------------------------------------------------
(* The upstream source: raw items, pages, outcomes of a request *)

RawItem(id, title, selftext, created) ==
    [ id |-> id, title |-> title, selftext |-> selftext, body |-> None,
      author |-> IF id = 2 THEN None ELSE Some(<<"u">>),
      url |-> IF id = 1 THEN Some(<<"https://x/", "1">>) ELSE None,
      permalink |-> IF id = 2 THEN None ELSE Some(<<"/r/a/", "p">>),
      score |-> IF id = 1 THEN Some(7) ELSE None, ups |-> None,
      num_comments |-> IF id = 1 THEN Some(2) ELSE None,
      created_utc |-> created, subreddit |-> <<"a">> ]

\* creation times lie around the two window starts the model can compute (5 and 6)
RawItems ==
    { RawItem(1, Some(<<"x", "a", "B">>), None, Some(6)),      \* recent, term in the title
      RawItem(2, Some(<<"a">>), Some(<<"b">>), Some(5)),       \* "a b": no match for "ab"
      RawItem(3, Some(<<"b">>), Some(<<"A", "b">>), Some(4)),  \* older than every window
      RawItem(4, Some(<<"A", "B">>), None, None) }             \* no creation time

Cursors == {<<"c", "1">>}

RECURSIVE SeqsUpTo(_, _)
SeqsUpTo(S, n) ==
    IF n = 0 THEN {<<>>}
    ELSE LET shorter == SeqsUpTo(S, n - 1)
         IN  shorter \cup {Append(s, x) : s \in {t \in shorter : Len(t) = n - 1}, x \in S}

Page(children, cursor) ==
    [readable |-> TRUE, wellformed |-> TRUE, children |-> children, after |-> cursor]

\* a body that parses but has no data.children
Malformed == [readable |-> TRUE, wellformed |-> FALSE, children |-> <<>>, after |-> None]

\* a body response.json() rejects
Unreadable == [readable |-> FALSE, wellformed |-> FALSE, children |-> <<>>, after |-> None]

Payloads ==
    {Page(ch, cu) : ch \in SeqsUpTo(RawItems, MaxPageLen),
                    cu \in {None} \cup {Some(c) : c \in Cursors}}
    \cup {Malformed}

\* the bodies an answered request can carry
Bodies == Payloads \cup {Unreadable}

\* how the upstream source answers a request: a status, or no answer at all
Outcomes == {"r429", "r403", "httperr", "neterr", "ok"}

\* an event of a fetchRedditJson call; n is the attempt, or the milliseconds of a sleep
Ev(e, n) == [ev |-> e, n |-> n]

----------------------------------------------------------------------------
(* normalizeRedditItem *)

normalizeRedditItem(item, companyName) ==
    [ source |-> "reddit",
      sourceId |-> item.id,
      sourceUrl |-> IF TruthyStr(item.url) THEN item.url[1]
                    ELSE <<"https://reddit.com">> \o Interp(item.permalink),
      title |-> IF TruthyStr(item.title) THEN item.title ELSE None,
      body |-> LET b == OrStr(item.selftext, item.body)
               IN  IF TruthyStr(b) THEN b[1] ELSE <<>>,
      author |-> IF TruthyStr(item.author) THEN item.author[1] ELSE <<"[deleted]">>,
      subreddit |-> item.subreddit,
      upvotes |-> OrNum(item.score, item.ups, 0),
      commentCount |-> OrNum(item.num_comments, None, 0),
      createdAt |-> IF TruthyNum(item.created_utc)
                    THEN Some(item.created_utc[1] * 1000) ELSE None,
      companyName |-> companyName ]

\* the window test left out
IsRecent_Always(post, ts) == TRUE

\* post.created_utc >= oneDayAgoTimestamp (undefined >= n is false)
IsRecent(post, ts) == IsSome(post.created_utc) /\ post.created_utc[1] >= ts

RecentOf(children, ts) == SelectSeq(children, LAMBDA p : IsRecent(p, ts))

\* new Date(); setHours(getHours() - 24); Math.floor(getTime() / 1000)
\* (the zone offset is taken to be the same at both ends of the 24 hours)
WindowStart(nowMs) == (nowMs - WindowHours * 3600 * 1000) \div 1000

\* the clock values of a run: window starts 5 and 6
NowChoices == {WindowHours * 3600 * 1000 + 5999, WindowHours * 3600 * 1000 + 6000}

----------------------------------------------------------------------------
(* fetchRedditJson(url, retries = 3) *)

\* attempt < retries: one attempt short
LoopContinues_Short(att, retries) == att < retries

\* the catch block never gives up
ErrorIsFinal_Never(att, retries) == FALSE

\* the catch block: the last attempt rethrows, an earlier one backs off and retries
ErrorIsFinal(att, retries) == att = retries

\* the for loop's condition after attempt++
LoopContinues(att, retries) == att <= retries

\* the fixed wait after a 429 / a 403
StatusCooldown(kind) == IF kind = "r429" THEN RateLimitCooldown ELSE BlockedCooldown

JsonValue == "value"
JsonUndefined == "undefined"
JsonThrew == "threw"
JsonNone == "none"

\* fetch is called without waiting for the answer of the request before
CanSend_NotAwaited(pc) == pc \in {"try", "wait"}

\* await fetch(...): the next request is sent only after the loop has come round
CanSend(pc) == pc = "try"

\* lines 34-53: the jitter sleep, then the request is sent
J_Attempt ==
    /\ CanSend(jpc)
    /\ jlog' = jlog \o <<Ev("jitter", JitterMin), Ev("request", attempt)>>
    /\ jpc' = "wait"
    /\ nreq' = nreq + 1
    /\ gap' = <<>>
    /\ inflight' = inflight + 1
    /\ UNCHANGED <<entry, nonScraper, attempt, jret, reqAfter, cvars, svars, exhausted, now>>

\* lines 55-81: the response (or the failure of fetch) and what the loop does with it
J_Response(o) ==
    /\ jpc = "wait"
    /\ CASE o \in {"r429", "r403"} ->
              /\ jlog' = jlog \o <<Ev(o, attempt), Ev("sleep", StatusCooldown(o))>>
              /\ gap' = Append(gap, StatusCooldown(o))
              /\ attempt' = attempt + 1
              /\ IF LoopContinues(attempt + 1, DefaultRetries)
                 THEN jpc' = "try" /\ jret' = jret /\ exhausted' = exhausted
                 ELSE /\ jpc' = "done"
                      /\ jret' = JsonUndefined
                      /\ exhausted' = IF ckind = "sub" THEN exhausted \cup {cname}
                                      ELSE exhausted
         [] o \in {"httperr", "neterr"} ->
              /\ exhausted' = exhausted
              /\ IF ErrorIsFinal(attempt, DefaultRetries)
                 THEN /\ jlog' = Append(jlog, Ev(o, attempt))
                      /\ jpc' = "done"
                      /\ jret' = JsonThrew
                      /\ attempt' = attempt
                      /\ gap' = gap
                 ELSE /\ jlog' = jlog \o <<Ev(o, attempt), Ev("sleep", ErrorBackoff)>>
                      /\ gap' = Append(gap, ErrorBackoff)
                      /\ attempt' = attempt + 1
                      /\ jpc' = "try"
                      /\ jret' = jret
         [] OTHER ->
              \* return response.json()
              /\ jlog' = Append(jlog, Ev("ok", attempt))
              /\ jpc' = "done"
              /\ jret' = JsonValue
              /\ UNCHANGED <<attempt, exhausted, gap>>
    /\ inflight' = inflight - 1
    /\ UNCHANGED <<entry, nonScraper, reqAfter, cvars, svars, now, nreq>>

----------------------------------------------------------------------------
(* fetchSubredditPosts(subredditName, {maxItems}) and                      *)
(* fetchRedditMentions(companyName, {maxItems})                            *)

maxFetches == CeilDiv(maxItems, PageLimit)

\* the while condition
LoopGuard(count, len, limit) == count < CeilDiv(limit, PageLimit) /\ len < limit

\* the cursor is never put into the URL
CursorParam_Never(cur) == None

\* if (after) params.set('after', after)
CursorParam(cur) == IF TruthyStr(cur) THEN cur ELSE None

\* !data.data || !data.data.children || data.data.children.length === 0
NoChildren(payload) == ~payload.wellformed \/ Len(payload.children) = 0

\* what one page adds to allPosts
PagePosts(kind, payload, ts, name) ==
    IF kind = "sub"
    THEN MapSeq(RecentOf(payload.children, ts), LAMBDA p : normalizeRedditItem(p, name))
    ELSE RecentOf(payload.children, ts)

\* the value a collector returns
CollectorResult(kind, posts, limit, name) ==
    IF kind = "sub"
    THEN SliceTo(posts, limit)
    ELSE MapSeq(SliceTo(posts, limit), LAMBDA p : normalizeRedditItem(p, name))

CollectorOk(items) == [threw |-> FALSE, items |-> items]
CollectorThrew == [threw |-> TRUE, items |-> <<>>]
CollectorNone == [threw |-> FALSE, items |-> <<>>]

\* the state a collector call starts in (lines 93-107, 403-412)
CallCollector(kind, name, limit) ==
    /\ ckind' = kind
    /\ cname' = name
    /\ maxItems' = limit
    /\ oneDayAgoTimestamp' = WindowStart(now)
    /\ allPosts' = <<>>
    /\ after' = None
    /\ fetchCount' = 0
    /\ data' = Malformed
    /\ lastOk' = FALSE
    /\ cret' = CollectorNone
    /\ pageReqs' = 0
    /\ cpc' = "loop"

\* the caller has taken the result: the locals of the call are gone
DropCollector ==
    /\ ckind' = "none" /\ cpc' = "idle" /\ cname' = <<>> /\ maxItems' = 1
    /\ oneDayAgoTimestamp' = 0 /\ allPosts' = <<>> /\ after' = None /\ fetchCount' = 0
    /\ data' = Malformed /\ lastOk' = FALSE /\ cret' = CollectorNone /\ pageReqs' = 0

\* the locals of a fetchRedditJson call are gone
DropJson ==
    /\ jpc' = "idle" /\ attempt' = 0 /\ jret' = JsonNone /\ jlog' = <<>>
    /\ reqAfter' = None

\* await new Promise(resolve => setTimeout(resolve, RATE_LIMIT_DELAY)) after a page
PageDelay == <<RATE_LIMIT_DELAY>>

\* the head of the while loop: request the next page, or leave the loop and return
C_Loop ==
    /\ cpc = "loop"
    /\ IF LoopGuard(fetchCount, Len(allPosts), maxItems)
       THEN /\ cpc' = "await"
            /\ pageReqs' = pageReqs + 1
            /\ reqAfter' = CursorParam(after)
            /\ jpc' = "try"
            /\ attempt' = 1
            /\ jlog' = <<>>
            /\ jret' = JsonNone
            /\ cret' = cret
       ELSE /\ cpc' = "done"
            /\ cret' = CollectorOk(CollectorResult(ckind, allPosts, maxItems, cname))
            /\ UNCHANGED <<pageReqs, jvars>>
    /\ UNCHANGED <<entry, nonScraper, ckind, cname, maxItems, oneDayAgoTimestamp, allPosts, after,
                   fetchCount, data, lastOk, svars, exhausted, now, nreq, hvars>>

\* the body of the while loop after fetchRedditJson came back: the page is added and
\* the loop goes on (after the fixed delay), or the loop is left and the call returns
C_Page(body) ==
    /\ cpc = "await"
    /\ jpc = "done"
    /\ jret # JsonValue => body = Unreadable
    /\ DropJson
    /\ IF jret # JsonValue \/ ~body.readable
       THEN \* fetchRedditJson threw, or response.json() rejected, or undefined.data threw
            /\ lastOk' = FALSE
            /\ UNCHANGED <<allPosts, after, fetchCount, data, gap>>
            /\ cpc' = "done"
            /\ cret' = IF ckind = "sub"
                       THEN CollectorOk(CollectorResult(ckind, allPosts, maxItems, cname))
                       ELSE CollectorThrew
       ELSE /\ lastOk' = TRUE
            /\ data' = body
            /\ IF NoChildren(body)
               THEN /\ UNCHANGED <<allPosts, after, fetchCount, gap>>
                    /\ cpc' = "done"
                    /\ cret' = CollectorOk(CollectorResult(ckind, allPosts, maxItems, cname))
               ELSE LET posts == allPosts \o PagePosts(ckind, body, oneDayAgoTimestamp, cname)
                    IN  /\ allPosts' = posts
                        /\ after' = body.after
                        /\ fetchCount' = fetchCount + 1
                        /\ IF TruthyStr(body.after)
                           THEN /\ cpc' = "loop" /\ cret' = cret
                                /\ gap' = gap \o PageDelay
                           ELSE /\ cpc' = "done"
                                /\ gap' = gap
                                /\ cret' = CollectorOk(CollectorResult(ckind, posts,
                                                                       maxItems, cname))
    /\ UNCHANGED <<entry, nonScraper, ckind, cname, maxItems, oneDayAgoTimestamp, pageReqs, svars,
                   exhausted, now, nreq, inflight>>

----------------------------------------------------------------------------
(* Source discovery (../analysis/subredditDiscovery.js) *)

Sub(name, relevance) == [name |-> name, relevance |-> relevance]

Discovery(subs, terms) == [subreddits |-> subs, searchTerms |-> terms]

Company == <<"A", "b">>

NoDuplicates(subs) ==
    \A i, j \in 1..Len(subs) : subs[i].name = subs[j].name => i = j

\* the lists the heuristic lookup can hold for a company: deduplicated, maybe empty
HeuristicLists ==
    { <<>>,
      <<Sub(<<"a">>, "secondary")>>,
      <<Sub(<<"a">>, "primary"), Sub(<<"b">>, "secondary")>> }

\* what the text-generation service can answer: a failure, or any list
LLMError == [failed |-> TRUE, subs |-> <<>>, terms |-> <<>>]
LLMList(subs, terms) == [failed |-> FALSE, subs |-> subs, terms |-> terms]
NoLLM == [failed |-> FALSE, subs |-> <<>>, terms |-> <<>>]

LLMOutputs ==
    { LLMError,
      LLMList(<<>>, <<Company>>),
      LLMList(<<Sub(<<"a">>, "primary"), Sub(<<"a">>, "primary")>>, <<Company>>),
      LLMList(<<Sub(<<"b">>, "secondary"), Sub(<<"a">>, "primary")>>,
              <<Company, <<"x">>>>) }

\* quickDiscoverSubreddits: a deterministic lookup, no external call
quickDiscoverSubreddits(name, table) == Discovery(table, <<name>>)

\* the answer of the service is passed on unchecked
discoverSubreddits_Unchecked(llm) ==
    IF llm.failed
    THEN [threw |-> TRUE, value |-> Discovery(<<>>, <<>>)]
    ELSE [threw |-> FALSE, value |-> Discovery(llm.subs, llm.terms)]

\* discoverSubreddits: returns a non-empty, deduplicated list or fails
discoverSubreddits(llm) ==
    IF llm.failed \/ Len(llm.subs) = 0 \/ ~NoDuplicates(llm.subs)
    THEN [threw |-> TRUE, value |-> Discovery(<<>>, <<>>)]
    ELSE [threw |-> FALSE, value |-> Discovery(llm.subs, llm.terms)]

----------------------------------------------------------------------------
(* smartScrape(companyName, options) *)

\* the comparison without toLowerCase()
isRelevantPost_CaseSensitive(post, searchTerms) ==
    LET title == IF TruthyStr(post.title) THEN post.title[1] ELSE <<>>
        content == title \o <<" ">> \o post.body
    IN  \E i \in 1..Len(searchTerms) : Includes(content, searchTerms[i])

\* isRelevantPost(post, searchTerms)
isRelevantPost(post, searchTerms) ==
    LET title == IF TruthyStr(post.title) THEN post.title[1] ELSE <<>>
        content == ToLowerCase(title \o <<" ">> \o post.body)
    IN  \E i \in 1..Len(searchTerms) : Includes(content, ToLowerCase(searchTerms[i]))

\* useQuickDiscovery || !process.env.OPENAI_API_KEY
UsesQuick(o) == o.useQuickDiscovery \/ ~o.hasApiKey

\* the catch block without the fallback: the failed discovery is used as it is
Discover_NoFallback(o, name, table, llm) ==
    IF UsesQuick(o)
    THEN [threw |-> FALSE, value |-> quickDiscoverSubreddits(name, table)]
    ELSE discoverSubreddits(llm)

\* lines 311-324: the try block and its catch
Discover(o, name, table, llm) ==
    IF UsesQuick(o)
    THEN [threw |-> FALSE, value |-> quickDiscoverSubreddits(name, table)]
    ELSE LET d == discoverSubreddits(llm)
         IN  IF d.threw
             THEN [threw |-> TRUE, value |-> quickDiscoverSubreddits(name, table)]
             ELSE d

\* lines 353-357
RelevantPosts(posts, sub, disc, o) ==
    IF o.filterSecondary /\ sub.relevance = "secondary"
    THEN SelectSeq(posts, LAMBDA p : isRelevantPost(p, disc.searchTerms))
    ELSE posts

\* lines 370-375
TagPost(post, name, sub) ==
    [ source |-> post.source, sourceId |-> post.sourceId, sourceUrl |-> post.sourceUrl,
      title |-> post.title, body |-> post.body, author |-> post.author,
      subreddit |-> post.subreddit, upvotes |-> post.upvotes,
      commentCount |-> post.commentCount, createdAt |-> post.createdAt,
      companyName |-> name, discoveredSubreddit |-> TRUE,
      subredditRelevance |-> sub.relevance ]

ResultEntry(total, relevant, relevance, error) ==
    [total |-> total, relevant |-> relevant, relevance |-> relevance, error |-> error]

\* subredditResults = { [name]: e }: the earlier entries are lost
SetResult_Overwrite(results, name, e) == [n \in {name} |-> e]

\* subredditResults[name] = e
SetResult(results, name, e) ==
    [n \in (DOMAIN results) \cup {name} |-> IF n = name THEN e ELSE results[n]]

\* the index of the source the loop takes after the one at index i
NextSource(i) == i + 1

ScrapeOk(disc, mentions, results) ==
    [threw |-> FALSE, discovery |-> disc, mentions |-> mentions, subredditResults |-> results]
ScrapeThrew ==
    [threw |-> TRUE, discovery |-> Discovery(<<>>, <<>>), mentions |-> <<>>,
     subredditResults |-> <<>>]
ScrapeNone ==
    [threw |-> FALSE, discovery |-> Discovery(<<>>, <<>>), mentions |-> <<>>,
     subredditResults |-> <<>>]

\* Step 1, and the Reddit-wide search when no source was found
S_Discover(llm) ==
    /\ spc = "discover"
    /\ LET d == Discover(opts, company, quickList, llm)
       IN  /\ discovery' = d.value
           /\ discThrew' = d.threw
           /\ llmOut' = IF UsesQuick(opts) THEN NoLLM ELSE llm
           /\ IF Len(d.value.subreddits) = 0
              THEN /\ spc' = "wide"
                   /\ CallCollector("mentions", company, WideMaxItems)
              ELSE /\ spc' = "loop"
                   /\ UNCHANGED cvars
    /\ subIdx' = 1
    /\ UNCHANGED <<entry, nonScraper, jvars, company, opts, quickList, allMentions, subredditResults,
                   sret, attempted, kept, exhausted, now, nreq, hvars>>

\* the head of the for loop: the next source is handed to the collector
S_Scrape ==
    /\ spc = "loop"
    /\ IF subIdx <= Len(discovery.subreddits)
       THEN /\ spc' = "awaitSub"
            /\ attempted' = Append(attempted, discovery.subreddits[subIdx].name)
            /\ CallCollector("sub", discovery.subreddits[subIdx].name,
                             opts.maxItemsPerSubreddit)
            /\ sret' = sret
       ELSE /\ spc' = "done"
            /\ sret' = ScrapeOk(discovery, allMentions, subredditResults)
            /\ UNCHANGED <<attempted, cvars>>
    /\ UNCHANGED <<entry, nonScraper, jvars, company, opts, quickList, llmOut, discThrew, discovery,
                   subIdx, allMentions, subredditResults, kept, exhausted, now, nreq,
                   hvars>>

\* the delay between two sources left out
SourceDelay_None == <<>>

\* line 384: the delay after every source, whether it was collected or failed
SourceDelay == <<RATE_LIMIT_DELAY>>

\* lines 352-384: the posts of one source are filtered, counted, tagged and added
S_Collected ==
    /\ spc = "awaitSub"
    /\ cpc = "done"
    /\ DropCollector
    /\ LET sub == discovery.subreddits[subIdx]
           posts == cret.items
           relevantPosts == RelevantPosts(posts, sub, discovery, opts)
           tagged == MapSeq(relevantPosts, LAMBDA p : TagPost(p, company, sub))
       IN  IF cret.threw
           THEN /\ subredditResults' =
                       SetResult(subredditResults, sub.name,
                                 ResultEntry(0, 0, "undefined", TRUE))
                /\ kept' = Append(kept, <<>>)
                /\ allMentions' = allMentions
           ELSE /\ subredditResults' =
                       SetResult(subredditResults, sub.name,
                                 ResultEntry(Len(posts), Len(relevantPosts),
                                             sub.relevance, FALSE))
                /\ kept' = Append(kept, tagged)
                /\ allMentions' = allMentions \o tagged
    /\ subIdx' = NextSource(subIdx)
    /\ gap' = gap \o SourceDelay
    /\ spc' = "loop"
    /\ UNCHANGED <<entry, nonScraper, jvars, company, opts, quickList, llmOut, discThrew, discovery,
                   sret, attempted, exhausted, now, nreq, inflight>>

\* lines 328-333: the Reddit-wide search came back
S_Wide ==
    /\ spc = "wide"
    /\ cpc = "done"
    /\ DropCollector
    /\ spc' = "done"
    /\ sret' = IF cret.threw THEN ScrapeThrew
               ELSE ScrapeOk(Discovery(<<>>, <<company>>), cret.items, <<>>)
    /\ UNCHANGED <<entry, nonScraper, jvars, company, opts, quickList, llmOut, discThrew, discovery,
                   subIdx, allMentions, subredditResults, attempted, kept, exhausted,
                   now, nreq, hvars>>

----------------------------------------------------------------------------
(* Synthesizer (src/analysis/synthesizer.js) on the types of                 *)
(* frontend/src/types.  Scores and sub-scores are in tenths: 62 is 6.2.      *)

\* the longest list of classified records of the sentiment roll-up inputs
MaxRecords == 6

\* maxScore of ImpactData, and the weights of the formula, in tenths
MaxScore == 100
ReachWeight == 4
SentimentWeight == 3
VelocityWeight == 3

Keys == {"k1", "k2"}

\* the category of the records of a grouping key
CategoryOf(key) == IF key = "k1" THEN "bug" ELSE "feature_request"

Sentiments == <<"positive", "neutral", "negative">>

ClassifiedRecord(id, key, sentiment, t) ==
    [ id |-> id, key |-> key, category |-> CategoryOf(key), sentiment |-> sentiment,
      reach |-> t[1], sentimentScore |-> t[2], velocity |-> t[3] ]

\* sub-score triples: the band borders, values outside [0, 10], the scenario
\* (8, 6, 4), and triples whose weighted sum does not end on a tenth
Triples ==
    {<<x, x, x>> : x \in {-10, 0, 39, 40, 59, 60, 79, 80, 100, 120}}
    \cup {<<80, 60, 40>>, <<80, 65, 40>>, <<81, 60, 40>>}

\* one or two records with any sub-scores, in one or two clusters
ScoreLists ==
    {<<ClassifiedRecord(1, k, "negative", t)>> : k \in Keys, t \in Triples}
    \cup {<<ClassifiedRecord(1, "k1", "negative", t[1]),
            ClassifiedRecord(2, k, "positive", t[2])>> : k \in Keys, t \in Triples \X Triples}

\* p positive, u neutral and n negative records
SentimentList(p, u, n) ==
    [i \in 1..(p + u + n) |->
        ClassifiedRecord(i, IF i % 2 = 1 THEN "k1" ELSE "k2",
                         IF i <= p THEN "positive"
                         ELSE IF i <= p + u THEN "neutral" ELSE "negative",
                         <<80, 60, 40>>)]

SentimentLists ==
    {SentimentList(c[1], c[2], c[3]) :
        c \in {d \in (0..MaxRecords) \X (0..MaxRecords) \X (0..MaxRecords) :
                  d[1] + d[2] + d[3] >= 3 /\ d[1] + d[2] + d[3] <= MaxRecords}}

RecordLists == ScoreLists \cup SentimentLists

Reverse(s) == [i \in 1..Len(s) |-> s[Len(s) + 1 - i]]

Rotate(s, k) == [i \in 1..Len(s) |-> s[((i + k - 1) % Len(s)) + 1]]

\* the orders in which the same records can reach the Synthesizer
Orderings(s) ==
    {Rotate(s, k) : k \in 0..(Len(s) - 1)} \cup {Reverse(Rotate(s, k)) : k \in 0..(Len(s) - 1)}

\* Math.round(num / den): to the nearest integer, a half upwards (den > 0)
Round(num, den) == (2 * num + den) \div (2 * den)

Clamp(x, lo, hi) == IF x < lo THEN lo ELSE IF x > hi THEN hi ELSE x

\* the sum of a sequence of numbers
RECURSIVE SumOf(_)
SumOf(s) == IF Len(s) = 0 THEN 0 ELSE Head(s) + SumOf(Tail(s))

\* the sub-scores of the first member stand for the cluster
Aggregate_First(members) ==
    [ n |-> 1, reach |-> members[1].reach, sentimentScore |-> members[1].sentimentScore,
      velocity |-> members[1].velocity ]

\* the sub-scores of a cluster: the mean over its members, kept as sums and count
Aggregate(members) ==
    [ n |-> Len(members),
      reach |-> SumOf([i \in 1..Len(members) |-> members[i].reach]),
      sentimentScore |-> SumOf([i \in 1..Len(members) |-> members[i].sentimentScore]),
      velocity |-> SumOf([i \in 1..Len(members) |-> members[i].velocity]) ]

\* the weighted sum, rounded to a tenth, not clamped
ImpactScore_Unclamped(reach, sentimentScore, velocity, n) ==
    Round(ReachWeight * reach + SentimentWeight * sentimentScore
              + VelocityWeight * velocity, 10 * n)

\* 0.4 reach + 0.3 sentiment + 0.3 velocity of sub-scores given as sums over n
\* members, rounded to one decimal and clamped to [0, 10]
ImpactScore(reach, sentimentScore, velocity, n) ==
    Clamp(Round(ReachWeight * reach + SentimentWeight * sentimentScore
                    + VelocityWeight * velocity, 10 * n), 0, MaxScore)

\* the banding of the severity label
severityLabel(score) ==
    IF score >= 80 THEN "Critical"
    ELSE IF score >= 60 THEN "High"
    ELSE IF score >= 40 THEN "Medium"
    ELSE "Low"

\* the effort policy per category
EffortPolicy(category) ==
    CASE category = "bug" -> "Quick Win"
      [] category = "feature_request" -> "Large"
      [] OTHER -> "Medium"

\* the impact from which a focus area counts as high-impact
HighImpact == 60

quadrant(score, effort) ==
    IF score >= HighImpact
    THEN IF effort = "Quick Win" THEN "Quick Wins" ELSE "Strategic Investments"
    ELSE IF effort = "Quick Win" THEN "Fill-ins" ELSE "Reconsider"

\* the grouping keys in the order of their first record
RECURSIVE ClusterKeys(_)
ClusterKeys(s) ==
    IF Len(s) = 0 THEN <<>>
    ELSE LET k == Head(s).key
         IN  <<k>> \o ClusterKeys(SelectSeq(Tail(s), LAMBDA r : r.key # k))

Members(s, key) == SelectSeq(s, LAMBDA r : r.key = key)

FocusAreaOf(s, key) ==
    LET m == Members(s, key)
        a == Aggregate(m)
        score == ImpactScore(a.reach, a.sentimentScore, a.velocity, a.n)
    IN  [ id |-> key, title |-> key, category |-> CategoryOf(key), impactScore |-> score,
          frequency |-> Len(m), trend |-> "stable", trendDelta |-> 0,
          severityLabel |-> severityLabel(score) ]

PriorityMatrixItemOf(fa) ==
    [ title |-> fa.title, category |-> fa.category, impactScore |-> fa.impactScore,
      effortEstimate |-> EffortPolicy(fa.category),
      quadrant |-> quadrant(fa.impactScore, EffortPolicy(fa.category)),
      frequency |-> fa.frequency ]

ImpactDataOf(r) ==
    [ score |-> ImpactScore(r.reach, r.sentimentScore, r.velocity, 1),
      maxScore |-> MaxScore,
      breakdown |-> [ reach |-> [value |-> r.reach, weight |-> ReachWeight],
                      sentiment |-> [value |-> r.sentimentScore, weight |-> SentimentWeight],
                      velocity |-> [value |-> r.velocity, weight |-> VelocityWeight] ] ]

CountOf(s, sentiment) == Len(SelectSeq(s, LAMBDA r : r.sentiment = sentiment))

\* the position of the largest of three numbers (the first of equals)
Largest(p) == CHOOSE i \in 1..3 : \A j \in 1..3 : p[i] > p[j] \/ (p[i] = p[j] /\ i <= j)

\* the rounded percentages as they are
SentimentRollup_Uncorrected(s) ==
    [ positive |-> Round(100 * CountOf(s, "positive"), Len(s)),
      neutral |-> Round(100 * CountOf(s, "neutral"), Len(s)),
      negative |-> Round(100 * CountOf(s, "negative"), Len(s)) ]

\* the percentages of the three classes, rounded, the largest corrected to sum to 100
SentimentRollup(s) ==
    LET p == [i \in 1..3 |-> Round(100 * CountOf(s, Sentiments[i]), Len(s))]
        fix == 100 - (p[1] + p[2] + p[3])
        q == [i \in 1..3 |-> IF i = Largest(p) THEN p[i] + fix ELSE p[i]]
    IN  [positive |-> q[1], neutral |-> q[2], negative |-> q[3]]

Synthesize(s) ==
    LET areas == [i \in 1..Len(ClusterKeys(s)) |-> FocusAreaOf(s, ClusterKeys(s)[i])]
    IN  [ focusAreas |-> areas,
          sentiment |-> SentimentRollup(s),
          priorityMatrix |-> [i \in 1..Len(areas) |-> PriorityMatrixItemOf(areas[i])],
          rawScores |-> [i \in 1..Len(s) |-> [id |-> s[i].id, impactData |-> ImpactDataOf(s[i])]] ]

NoReport ==
    [ focusAreas |-> <<>>, sentiment |-> [positive |-> 0, neutral |-> 0, negative |-> 0],
      priorityMatrix |-> <<>>, rawScores |-> <<>> ]

----------------------------------------------------------------------------
(* Comparer (src/analysis/comparer.js) *)

\* a change of the impact score up to this size is noise
NoiseThreshold == 5

SnapshotArea(title, score) ==
    [title |-> title, category |-> CategoryOf(title), frequency |-> 1, impactScore |-> score]

Snapshot(areas) == [focusAreas |-> areas]

\* prior snapshots: without focus areas, and with one or two of them, also of a
\* theme the current run does not have
PriorAreas == {SnapshotArea(t, sc) : t \in Keys \cup {"k3"}, sc \in {20, 62}}

Priors ==
    {None}
    \cup {Some(Snapshot(<<>>))}
    \cup {Some(Snapshot(<<a>>)) : a \in PriorAreas}
    \cup {Some(Snapshot(<<a, b>>)) : a \in {SnapshotArea("k1", 62)},
                                    b \in {SnapshotArea("k2", 20), SnapshotArea("k3", 20)}}

SameArea(a, b) == a.title = b.title /\ a.category = b.category

Matches(fa, old) == SelectSeq(old, LAMBDA o : SameArea(fa, o))

ChangeType(fa, old) ==
    IF Len(Matches(fa, old)) = 0 THEN "new"
    ELSE LET d == fa.impactScore - Matches(fa, old)[1].impactScore
         IN  IF d > NoiseThreshold THEN "worsened"
             ELSE IF d < -NoiseThreshold THEN "improved" ELSE "stable"

ChangeItem(title, category, changeType, impactDelta) ==
    [title |-> title, category |-> category, changeType |-> changeType,
     impactDelta |-> impactDelta]

ChangeOf(fa, old) ==
    ChangeItem(fa.title, fa.category, ChangeType(fa, old),
               IF Len(Matches(fa, old)) = 0 THEN 0
               ELSE fa.impactScore - Matches(fa, old)[1].impactScore)

TrendOf(changeType) ==
    CASE changeType = "new" -> "new"
      [] changeType = "worsened" -> "up"
      [] changeType = "improved" -> "down"
      [] OTHER -> "stable"

ChangesOf(areas, old, changeType) ==
    SelectSeq([i \in 1..Len(areas) |-> ChangeOf(areas[i], old)],
              LAMBDA c : c.changeType = changeType)

Resolved(areas, old) ==
    LET gone == SelectSeq(old, LAMBDA o : \A i \in 1..Len(areas) : ~SameArea(areas[i], o))
    IN  [i \in 1..Len(gone) |->
            ChangeItem(gone[i].title, gone[i].category, "resolved", -gone[i].impactScore)]

WithTrends(areas, old) ==
    [i \in 1..Len(areas) |->
        [areas[i] EXCEPT !.trend = TrendOf(ChangeOf(areas[i], old).changeType),
                         !.trendDelta = ChangeOf(areas[i], old).impactDelta]]

Diff(areas, old, first) ==
    [ isFirstRun |-> first,
      changes |-> [ newIssues |-> ChangesOf(areas, old, "new"),
                    improvedIssues |-> ChangesOf(areas, old, "improved"),
                    worsenedIssues |-> ChangesOf(areas, old, "worsened"),
                    resolvedIssues |-> Resolved(areas, old),
                    stableIssues |-> ChangesOf(areas, old, "stable") ],
      focusAreas |-> WithTrends(areas, old) ]

\* the first run is not told apart: the current areas are compared with themselves
Compare_NoFirstRun(rep, snap) ==
    IF IsSome(snap) THEN Diff(rep.focusAreas, snap[1].focusAreas, FALSE)
    ELSE Diff(rep.focusAreas, rep.focusAreas, FALSE)

\* the Comparison of a report with the prior snapshot, if there is one
Compare(rep, snap) ==
    IF IsSome(snap) THEN Diff(rep.focusAreas, snap[1].focusAreas, FALSE)
    ELSE Diff(rep.focusAreas, <<>>, TRUE)

NoComparison == Diff(<<>>, <<>>, FALSE)

----------------------------------------------------------------------------
(* The assistant fallback (frontend/src/services/askThreader.ts) *)

\* the comparisons with > instead of >=
priorityLevel_Exclusive(impactScore) ==
    IF impactScore > 80 THEN "Critical Priority"
    ELSE IF impactScore > 60 THEN "High Priority"
    ELSE IF impactScore > 40 THEN "Medium Priority"
    ELSE "Lower Priority"

\* generateFeedbackResponse: priorityLevel
priorityLevel(impactScore) ==
    IF impactScore >= 80 THEN "Critical Priority"
    ELSE IF impactScore >= 60 THEN "High Priority"
    ELSE IF impactScore >= 40 THEN "Medium Priority"
    ELSE "Lower Priority"

NoAnswer == [title |-> "", impactScore |-> 0, severityLabel |-> "", priorityLevel |-> ""]

----------------------------------------------------------------------------
(* One run of Synthesizer, Comparer and a question to the assistant *)

IdleSynth ==
    /\ ypc = "idle" /\ recs = <<>> /\ report = NoReport /\ rerun = NoReport
    /\ prior = None /\ comparison = NoComparison /\ answer = NoAnswer

Y_Synthesize ==
    /\ ypc = "ready"
    /\ \E s \in Orderings(recs) : report' = Synthesize(s)
    /\ ypc' = "synthesized"
    /\ UNCHANGED <<entry, scraper, frontend, recs, rerun, prior, comparison, answer>>

\* the Synthesizer runs again on the same records
Y_Resynthesize ==
    /\ ypc = "synthesized"
    /\ \E s \in Orderings(recs) : rerun' = Synthesize(s)
    /\ ypc' = "rerun"
    /\ UNCHANGED <<entry, scraper, frontend, recs, report, prior, comparison, answer>>

Y_Compare(snap) ==
    /\ ypc = "rerun"
    /\ prior' = snap
    /\ comparison' = Compare(report, snap)
    /\ report' = [report EXCEPT !.focusAreas = Compare(report, snap).focusAreas]
    /\ ypc' = "compared"
    /\ UNCHANGED <<entry, scraper, frontend, recs, rerun, answer>>

\* the user asks how to prioritize the focus area at index i
Y_Ask(i) ==
    /\ ypc = "compared"
    /\ i \in 1..Len(report.focusAreas)
    /\ answer' = [ title |-> report.focusAreas[i].title,
                   impactScore |-> report.focusAreas[i].impactScore,
                   severityLabel |-> report.focusAreas[i].severityLabel,
                   priorityLevel |-> priorityLevel(report.focusAreas[i].impactScore) ]
    /\ ypc' = "asked"
    /\ UNCHANGED <<entry, scraper, frontend, recs, report, rerun, prior, comparison>>

----------------------------------------------------------------------------
(* useDemoMode (frontend/src/hooks/useDemoMode) and DemoContent             *)
(* (frontend/src/App.tsx), while the hook is mounted on one route.  The     *)
(* handlers the hook returns may be called at any time after the first      *)
(* effect ran; a request is answered at any later time.                     *)

MAX_POLL_COUNT == 20

\* calls of startPolling, requests in flight per kind, seconds counted
MaxSessions == 2
MaxPending == 1
MaxElapsed == 1

ReportUuid == "u1"

Row(id, name, public, created, rep) ==
    [ id |-> id, company_name |-> name, is_public |-> public, created_at |-> created,
      report_data |-> rep ]

\* the tables the hook meets: empty; the report of the route public, resp.
\* non-public; the company with a non-public and a public report; the report of
\* the route belonging to another company while the company has its own report
Databases ==
    { {},
      { Row("u1", <<"a", "B">>, TRUE, 1, "r1") },
      { Row("u1", <<"a", "B">>, FALSE, 1, "r1") },
      { Row("u1", <<"a", "B">>, FALSE, 2, "r1"), Row("u2", <<"a", "b">>, TRUE, 1, "r2") },
      { Row("u1", <<"z">>, TRUE, 1, "r1"), Row("u2", <<"A", "b">>, TRUE, 2, "r2") } }

Roles == {"anon", "authenticated"}

\* a visitor without a session on each table, and a signed-in visitor on the
\* tables that hold a non-public report
Stores ==
    { [rows |-> rows, role |-> role] : rows \in Databases, role \in Roles } \
    { [rows |-> rows, role |-> "authenticated"] : rows \in {d \in Databases : \A r \in d : r.is_public} }

\* the policies public_read_access and tenant_read_access, every row being of
\* the tenant of the session
Visible(rows, role) == {r \in rows : r.is_public \/ role = "authenticated"}

Params(uuid, name, role) == [reportUuid |-> uuid, companyParam |-> name, role |-> role]

\* the routes of the demo mode: /report/:uuid, /?company=, /report/:uuid?company=
Routes == { <<Some(ReportUuid), None>>, <<None, Some(Company)>>, <<Some(ReportUuid), Some(Company)>> }

isUuidMode == IsSome(params.reportUuid)
isDemoMode == isUuidMode \/ IsSome(params.companyParam)

DemoConfigFile(name, synthesis) == [companyName |-> name, synthesis |-> synthesis]

\* no file or another company; the company without and with a report of its own
DemoConfigs ==
    { DemoConfigFile(None, None), DemoConfigFile(Some(<<"a", "B">>), None),
      DemoConfigFile(Some(<<"A", "b">>), Some("config")) }

sampleSynthesisV2 == "sample"

DemoState(companyName, reportId, synthesis, status, dataSource, error, pollCount, isPolling, pipelineStage, elapsedSeconds) ==
    [ companyName |-> companyName, reportId |-> reportId, synthesis |-> synthesis,
      status |-> status, dataSource |-> dataSource, error |-> error,
      pollCount |-> pollCount, maxPolls |-> MAX_POLL_COUNT, isPolling |-> isPolling,
      pipelineStage |-> pipelineStage, elapsedSeconds |-> elapsedSeconds ]

InitialState == DemoState(<<>>, None, None, "idle", "none", None, 0, FALSE, "connecting", 0)

\* the newest of a non-empty set of rows
Newest(rows) == CHOOSE r \in rows : \A q \in rows : q.created_at <= r.created_at

\* the query without .eq('is_public', true)
PublicOnly_Any(rows) == rows

PublicOnly(rows) == {r \in rows : r.is_public}

\* a failed query, an unconfigured client and a lost race against the timeout
\* give null
fetchFromSupabase(rows, name, answered) ==
    LET found == {r \in PublicOnly(rows) : ToLowerCase(r.company_name) = ToLowerCase(name)}
    IN  IF answered /\ found # {} THEN Some(Newest(found).report_data) ELSE None

fetchByUuid(rows, uuid, answered) ==
    LET found == {r \in PublicOnly(rows) : r.id = uuid}
    IN  IF answered /\ found # {} THEN Some(CHOOSE r \in found : TRUE) ELSE None

Timer(id, kind) == [id |-> id, kind |-> kind]

Cleared(ts, pollRef, elapsedRef) == {t \in ts : t.id \notin {pollRef, elapsedRef}}

PollingState(prev) ==
    [prev EXCEPT !.status = "polling", !.isPolling = TRUE, !.pollCount = 0,
                 !.elapsedSeconds = 0, !.pipelineStage = "discovery", !.error = None]

newStage(newPollCount) ==
    IF newPollCount > 12 THEN "synthesizing"
    ELSE IF newPollCount > 8 THEN "analyzing"
    ELSE IF newPollCount > 4 THEN "scraping" ELSE "discovery"

TimesOut(prev) == prev.pollCount + 1 >= MAX_POLL_COUNT

Polled(prev) ==
    IF TimesOut(prev)
    THEN [prev EXCEPT !.status = "timeout", !.isPolling = FALSE,
                      !.pollCount = prev.pollCount + 1, !.error = Some("taking longer")]
    ELSE [prev EXCEPT !.pollCount = prev.pollCount + 1,
                      !.pipelineStage = newStage(prev.pollCount + 1)]

\* the update of a poll that found a report, without the report
FoundState_NoSynthesis(prev, synthesis) ==
    [prev EXCEPT !.status = "success", !.dataSource = "supabase",
                 !.isPolling = FALSE, !.pipelineStage = "complete"]

FoundState(prev, synthesis) ==
    [prev EXCEPT !.synthesis = Some(synthesis), !.status = "success",
                 !.dataSource = "supabase", !.isPolling = FALSE,
                 !.pipelineStage = "complete"]

LoadingState(prev, name) ==
    [prev EXCEPT !.companyName = name, !.status = "loading", !.error = None,
                 !.synthesis = None, !.pipelineStage = "connecting"]

LoadedState(name, synthesis, source) ==
    DemoState(name, None, Some(synthesis), "success", source, None, 0, FALSE, "complete", 0)

NoDataState(name) ==
    DemoState(name, None, None, "no-data", "none", Some("no report"), 0, FALSE,
              "connecting", 0)

ConfigMatches(config, name) ==
    IsSome(config.companyName) /\ ToLowerCase(config.companyName[1]) = ToLowerCase(name)

ConfigSynthesis(config) ==
    IF IsSome(config.synthesis) THEN config.synthesis[1] ELSE sampleSynthesisV2

\* the state fetchDemoData sets when its requests are answered
DemoDataState(name, synthesis, config) ==
    IF IsSome(synthesis) THEN LoadedState(name, synthesis[1], "supabase")
    ELSE IF ConfigMatches(config, name)
         THEN LoadedState(name, ConfigSynthesis(config), "demo-config")
         ELSE NoDataState(name)

UuidLoadingState(prev, uuid) ==
    [prev EXCEPT !.status = "loading", !.reportId = Some(uuid), !.error = None,
                 !.synthesis = None, !.pipelineStage = "connecting"]

UuidState(prev, result, uuid) ==
    IF IsSome(result)
    THEN DemoState(result[1].company_name, Some(uuid), Some(result[1].report_data),
                   "success", "supabase-uuid", None, 0, FALSE, "complete", 0)
    ELSE [prev EXCEPT !.status = "no-data", !.error = Some("not found")]

NoPending == [poll |-> 0, demo |-> 0, uuid |-> 0]

Sent(p, kind) == [p EXCEPT ![kind] = p[kind] + 1]
Answered(p, kind) == [p EXCEPT ![kind] = p[kind] - 1]

IdleDemo ==
    /\ params = Params(None, None, "anon") /\ state = InitialState
    /\ pollIntervalRef = 0 /\ elapsedIntervalRef = 0 /\ timers = {} /\ sessions = 0
    /\ pending = NoPending /\ db = {} /\ demoConfig = DemoConfigFile(None, None)

Mounted == state.status # "idle"

\* the effect of the first render
D_Mount ==
    /\ entry = "demo" /\ ~Mounted /\ isDemoMode
    /\ IF isUuidMode
       THEN /\ state' = UuidLoadingState(state, params.reportUuid[1])
            /\ pending' = Sent(pending, "uuid")
       ELSE /\ state' = LoadingState(state, params.companyParam[1])
            /\ pending' = Sent(pending, "demo")
    /\ UNCHANGED <<entry, scraper, yvars, pvars, params, pollIntervalRef, elapsedIntervalRef,
                   timers, sessions, db, demoConfig>>

\* manualCheck, retry, refetch
D_ManualCheck ==
    /\ entry = "demo" /\ Mounted
    /\ IsSome(params.companyParam)
    /\ pending.demo < MaxPending
    /\ state' = LoadingState(state, params.companyParam[1])
    /\ pending' = Sent(pending, "demo")
    /\ UNCHANGED <<entry, scraper, yvars, pvars, params, pollIntervalRef, elapsedIntervalRef,
                   timers, sessions, db, demoConfig>>

D_StartPolling ==
    /\ entry = "demo" /\ Mounted
    /\ IsSome(params.companyParam)
    /\ sessions < MaxSessions /\ pending.poll < MaxPending
    /\ elapsedIntervalRef' = 2 * sessions + 1
    /\ pollIntervalRef' = 2 * sessions + 2
    /\ timers' = timers \cup { Timer(2 * sessions + 1, "elapsed"),
                               Timer(2 * sessions + 2, "poll") }
    /\ sessions' = sessions + 1
    \* the immediate check
    /\ state' = Polled(PollingState(state))
    /\ pending' = Sent(pending, "poll")
    /\ UNCHANGED <<entry, scraper, yvars, pvars, params, db, demoConfig>>

D_StopPolling ==
    /\ entry = "demo" /\ Mounted
    /\ timers' = Cleared(timers, pollIntervalRef, elapsedIntervalRef)
    /\ pollIntervalRef' = 0 /\ elapsedIntervalRef' = 0
    /\ state' = [state EXCEPT !.isPolling = FALSE]
    /\ UNCHANGED <<entry, scraper, yvars, pvars, params, sessions, pending, db, demoConfig>>

\* an interval of poll fires
D_PollTick(t) ==
    /\ entry = "demo"
    /\ t \in timers /\ t.kind = "poll"
    /\ pending.poll < MaxPending /\ state.pollCount <= MAX_POLL_COUNT
    /\ state' = Polled(state)
    /\ IF TimesOut(state)
       THEN /\ timers' = Cleared(timers, pollIntervalRef, elapsedIntervalRef)
            /\ pollIntervalRef' = 0 /\ elapsedIntervalRef' = 0
       ELSE UNCHANGED <<timers, pollIntervalRef, elapsedIntervalRef>>
    /\ pending' = Sent(pending, "poll")
    /\ UNCHANGED <<entry, scraper, yvars, pvars, params, sessions, db, demoConfig>>

D_ElapsedTick(t) ==
    /\ entry = "demo"
    /\ t \in timers /\ t.kind = "elapsed"
    /\ state.elapsedSeconds < MaxElapsed
    /\ state' = [state EXCEPT !.elapsedSeconds = state.elapsedSeconds + 1]
    /\ UNCHANGED <<entry, scraper, yvars, pvars, params, pollIntervalRef, elapsedIntervalRef,
                   timers, sessions, pending, db, demoConfig>>

\* the request of a poll is answered
D_PollResponse(answered) ==
    /\ entry = "demo" /\ pending.poll > 0
    /\ LET synthesis == fetchFromSupabase(Visible(db, params.role), params.companyParam[1],
                                          answered)
       IN  IF IsSome(synthesis)
           THEN /\ timers' = Cleared(timers, pollIntervalRef, elapsedIntervalRef)
                /\ pollIntervalRef' = 0 /\ elapsedIntervalRef' = 0
                /\ state' = FoundState(state, synthesis[1])
           ELSE UNCHANGED <<timers, pollIntervalRef, elapsedIntervalRef, state>>
    /\ pending' = Answered(pending, "poll")
    /\ UNCHANGED <<entry, scraper, yvars, pvars, params, sessions, db, demoConfig>>

\* the requests of fetchDemoData are answered
D_DemoResponse(answered) ==
    /\ entry = "demo" /\ pending.demo > 0
    /\ state' = DemoDataState(params.companyParam[1],
                              fetchFromSupabase(Visible(db, params.role),
                                                params.companyParam[1], answered),
                              demoConfig)
    /\ pending' = Answered(pending, "demo")
    /\ UNCHANGED <<entry, scraper, yvars, pvars, params, pollIntervalRef, elapsedIntervalRef,
                   timers, sessions, db, demoConfig>>

D_UuidResponse(answered) ==
    /\ entry = "demo" /\ pending.uuid > 0
    /\ state' = UuidState(state, fetchByUuid(Visible(db, params.role), params.reportUuid[1],
                                             answered),
                          params.reportUuid[1])
    /\ pending' = Answered(pending, "uuid")
    /\ UNCHANGED <<entry, scraper, yvars, pvars, params, pollIntervalRef, elapsedIntervalRef,
                   timers, sessions, db, demoConfig>>

\* the views DemoContent renders
Views(st) ==
    {v \in {"loader", "polling", "timeout", "no-data", "error", "dashboard"} :
        \/ v = "loader" /\ st.status \in {"loading", "idle"}
        \/ v = "polling" /\ (st.status = "polling" \/ st.isPolling) /\ st.status # "success"
        \/ v = "timeout" /\ st.status = "timeout"
        \/ v = "no-data" /\ st.status = "no-data"
        \/ v = "error" /\ st.status = "error"
        \/ v = "dashboard" /\ st.status = "success" /\ IsSome(st.synthesis)}

----------------------------------------------------------------------------
(* askThreader (frontend/src/services/askThreader.ts) and AskThreaderPanel  *)
(* (frontend/src/components/dashboard/AskThreaderPanel.tsx) inside          *)
(* DashboardV2.  A question is the set of the keywords its lower-cased text *)
(* contains; an answer is the template that produced it.                    *)

\* questions submitted per run of the panel
MaxQuestions == 2

\* the suggestion of a focus area, a question on priorities, one on the top
\* issues that names priorities too, and small talk
Questions == { {"why", "rising"}, {"priorit"}, {"top", "priorit"}, {} }

Has(query, words) == query \cap words # {}

FocusArea(id, title, impactScore) == [id |-> id, title |-> title, impactScore |-> impactScore]

PanelAreas == { FocusArea("f1", "Login fails", 85), FocusArea("f2", "Dark mode", 40) }

AskThreaderRequest(question, feedback) == [question |-> question, selectedFeedback |-> feedback]

LocalAnswer(template, about, level) ==
    [by |-> "local", template |-> template, about |-> about, level |-> level]

ServiceAnswer(text) == [by |-> "service", template |-> text, about |-> "", level |-> ""]

generateFeedbackResponse(feedback, query) ==
    IF "why" \in query /\ Has(query, {"trend", "rising", "up"})
    THEN LocalAnswer("trend", feedback.title, "")
    ELSE IF Has(query, {"cause", "why", "root"})
    THEN LocalAnswer("cause", feedback.title, "")
    ELSE IF Has(query, {"priorit", "should we", "important"})
    THEN LocalAnswer("prioritization", feedback.title, priorityLevel(feedback.impactScore))
    ELSE LocalAnswer("analysis", feedback.title, "")

generateGeneralResponse(query) ==
    IF Has(query, {"love", "positive", "strength", "like"})
    THEN LocalAnswer("loves", "", "")
    ELSE IF Has(query, {"issue", "problem", "concern", "top"})
    THEN LocalAnswer("top", "", "")
    ELSE IF Has(query, {"compar", "previous", "change"})
    THEN LocalAnswer("trends", "", "")
    ELSE IF Has(query, {"priorit", "q1", "next", "should"})
    THEN LocalAnswer("priorities", "", "")
    ELSE LocalAnswer("overview", "", "")

generateLocalResponse(request) ==
    IF IsSome(request.selectedFeedback)
    THEN generateFeedbackResponse(request.selectedFeedback[1], request.question)
    ELSE generateGeneralResponse(request.question)

\* what the call of the edge function does: fetch rejects; a status outside
\* 2xx with a JSON body naming the error, resp. with a body that is no JSON; a
\* 2xx status with a body that is no JSON, with a JSON body without an answer,
\* with an answer
CallOutcomes == {"neterr", "status-json", "status-text", "ok-text", "ok-empty", "ok"}

ErrorMessage(outcome) ==
    IF outcome = "neterr" THEN "Failed to fetch"
    ELSE IF outcome = "status-json" THEN "errorData.error"
    ELSE IF outcome = "status-text" THEN "Request failed with status"
    ELSE "Unexpected token"

AskThreaderResponse(rejected, text, error) ==
    [rejected |-> rejected, answer |-> text, error |-> error]

\* askThreader without its catch block
askThreader_Rethrow(request, outcome) ==
    IF outcome = "ok" THEN AskThreaderResponse(FALSE, ServiceAnswer("answer"), None)
    ELSE IF outcome = "ok-empty" THEN AskThreaderResponse(FALSE, ServiceAnswer("undefined"), None)
    ELSE AskThreaderResponse(TRUE, ServiceAnswer(""), Some(ErrorMessage(outcome)))

askThreader(request, outcome) ==
    IF outcome = "ok" THEN AskThreaderResponse(FALSE, ServiceAnswer("answer"), None)
    ELSE IF outcome = "ok-empty" THEN AskThreaderResponse(FALSE, ServiceAnswer("undefined"), None)
    ELSE AskThreaderResponse(FALSE, generateLocalResponse(request), Some(ErrorMessage(outcome)))

Message(id, role, content, feedbackData) ==
    [ id |-> id, role |-> role, content |-> content,
      isFeedbackPanel |-> IsSome(feedbackData), feedbackData |-> feedbackData ]

\* the ids are made of the clock; here of the number of the question
UserMessage(n, query) == Message(<<"user", n>>, "user", query, None)
AssistantMessage(n, content) == Message(<<"assistant", n>>, "assistant", content, None)
FeedbackPanelMessage(feedback) == Message(<<"feedback", 0>>, "assistant", "", Some(feedback))

Apology == [by |-> "panel", template |-> "apology", about |-> "", level |-> ""]

IdlePanel ==
    /\ isOpen = FALSE /\ messages = <<>> /\ isLoading = FALSE
    /\ currentFeedback = None /\ selectedFeedback = None
    /\ asks = {} /\ replies = {} /\ asked = 0

\* AskThreaderButton toggles the closed panel
P_Open ==
    /\ entry = "panel" /\ ~isOpen
    /\ isOpen' = TRUE
    /\ UNCHANGED <<entry, scraper, yvars, dvars, messages, isLoading, currentFeedback,
                   selectedFeedback, asks, replies, asked>>

\* the backdrop or AskThreaderButton closes the panel; the effect on isOpen runs
P_Close ==
    /\ entry = "panel" /\ isOpen
    /\ isOpen' = FALSE
    /\ messages' = <<>>
    /\ currentFeedback' = None
    /\ selectedFeedback' = None
    /\ UNCHANGED <<entry, scraper, yvars, dvars, isLoading, asks, replies, asked>>

\* handleCardClick of DashboardV2 (the backdrop covers the cards of an open
\* panel); the effect on selectedFeedback runs
P_SelectFeedback(feedback) ==
    /\ entry = "panel" /\ ~isOpen
    /\ selectedFeedback' = Some(feedback)
    /\ isOpen' = TRUE
    /\ IF Some(feedback) # currentFeedback
       THEN /\ currentFeedback' = Some(feedback)
            /\ messages' = <<FeedbackPanelMessage(feedback)>>
       ELSE UNCHANGED <<currentFeedback, messages>>
    /\ UNCHANGED <<entry, scraper, yvars, dvars, isLoading, asks, replies, asked>>

HasSuggestions ==
    messages = <<>> \/ \E i \in 1..Len(messages) : messages[i].isFeedbackPanel

\* handleSubmit up to its await, called by the send button, the Enter key or a
\* suggestion button
P_Submit(query, via) ==
    /\ entry = "panel" /\ isOpen
    /\ asked < MaxQuestions
    /\ via = "send" => ~isLoading
    /\ via = "suggestion" => HasSuggestions
    /\ messages' = Append(messages, UserMessage(asked + 1, query))
    /\ isLoading' = TRUE
    /\ asks' = asks \cup {[n |-> asked + 1, request |-> AskThreaderRequest(query, currentFeedback)]}
    /\ asked' = asked + 1
    /\ UNCHANGED <<entry, scraper, yvars, dvars, isOpen, currentFeedback, selectedFeedback,
                   replies>>

\* askThreader settles and handleSubmit continues
P_Answer(call, outcome) ==
    /\ entry = "panel" /\ call \in asks
    /\ LET response == askThreader(call.request, outcome)
       IN  /\ messages' = Append(messages,
                                 AssistantMessage(call.n, IF response.rejected
                                                          THEN Apology
                                                          ELSE response.answer))
           /\ replies' = replies \cup {[n |-> call.n, request |-> call.request,
                                        outcome |-> outcome, response |-> response]}
    /\ isLoading' = FALSE
    /\ asks' = asks \ {call}
    /\ UNCHANGED <<entry, scraper, yvars, dvars, isOpen, currentFeedback, selectedFeedback,
                   asked>>

----------------------------------------------------------------------------
(* The run *)

\* the values of maxItems the callers pass: one page, or two pages
MaxItemsChoices == {1, 2, PageLimit + 1}

Options(quick, key, filter, limit) ==
    [ useQuickDiscovery |-> quick, hasApiKey |-> key, filterSecondary |-> filter,
      maxItemsPerSubreddit |-> limit ]

\* the options and environments of a smartScrape call: each discovery path, the
\* relevance filter on and off, maxItemsPerSubreddit below and at the page length
OptionChoices ==
    { Options(TRUE, TRUE, TRUE, 2), Options(FALSE, FALSE, FALSE, 1),
      Options(FALSE, TRUE, TRUE, 1), Options(FALSE, TRUE, FALSE, 2) }

IdleJson ==
    /\ jpc = "idle" /\ attempt = 0 /\ jret = JsonNone
    /\ jlog = <<>> /\ reqAfter = None

IdleCollector ==
    /\ ckind = "none" /\ cpc = "idle" /\ cname = <<>> /\ maxItems = 1
    /\ oneDayAgoTimestamp = 0 /\ allPosts = <<>> /\ after = None /\ fetchCount = 0
    /\ data = Malformed /\ lastOk = FALSE /\ cret = CollectorNone /\ pageReqs = 0

IdleScrape ==
    /\ spc = "idle" /\ company = Company
    /\ opts = Options(FALSE, FALSE, TRUE, 1)
    /\ quickList = <<>> /\ llmOut = NoLLM /\ discThrew = FALSE
    /\ discovery = Discovery(<<>>, <<>>) /\ subIdx = 1 /\ allMentions = <<>>
    /\ subredditResults = <<>> /\ sret = ScrapeNone /\ attempted = <<>> /\ kept = <<>>

\* a direct call of fetchSubredditPosts or fetchRedditMentions
InitCollector ==
    /\ entry \in {"sub", "mentions"}
    /\ IdleJson
    /\ IdleScrape
    /\ ckind = entry
    /\ cname = IF entry = "sub" THEN <<"a">> ELSE Company
    /\ maxItems \in MaxItemsChoices
    /\ now \in NowChoices
    /\ oneDayAgoTimestamp = WindowStart(now)
    /\ allPosts = <<>> /\ after = None /\ fetchCount = 0 /\ data = Malformed
    /\ lastOk = FALSE /\ cret = CollectorNone /\ pageReqs = 0
    /\ cpc = "loop"
    /\ exhausted = {} /\ nreq = 0 /\ gap = <<>> /\ inflight = 0
    /\ IdleSynth /\ IdleDemo /\ IdlePanel

\* a call of smartScrape
InitScrape ==
    /\ entry = "smart"
    /\ IdleJson
    /\ IdleCollector
    /\ spc = "discover" /\ company = Company /\ opts \in OptionChoices
    /\ quickList \in HeuristicLists /\ llmOut = NoLLM /\ discThrew = FALSE
    /\ discovery = Discovery(<<>>, <<>>) /\ subIdx = 1 /\ allMentions = <<>>
    /\ subredditResults = <<>> /\ sret = ScrapeNone /\ attempted = <<>> /\ kept = <<>>
    /\ now = CHOOSE n \in NowChoices : \A m \in NowChoices : n <= m
    /\ exhausted = {} /\ nreq = 0 /\ gap = <<>> /\ inflight = 0
    /\ IdleSynth /\ IdleDemo /\ IdlePanel

Init == InitCollector \/ InitScrape

Next ==
    \/ J_Attempt
    \/ \E o \in Outcomes : J_Response(o)
    \/ C_Loop
    \/ \E body \in Bodies : C_Page(body)
    \/ \E llm \in LLMOutputs : S_Discover(llm)
    \/ S_Scrape
    \/ S_Collected
    \/ S_Wide

Spec == Init /\ [][Next]_vars

\* every request is answered or fails, and every continuation then runs
FairSpec == Spec /\ WF_vars(Next)

RunDone == IF entry = "smart" THEN spc = "done" ELSE cpc = "done"

\* a run of the Synthesizer, the Comparer and the assistant on classified records
InitSynth ==
    /\ entry = "synth"
    /\ IdleJson /\ IdleCollector /\ IdleScrape
    /\ now = 0 /\ exhausted = {} /\ nreq = 0 /\ gap = <<>> /\ inflight = 0
    /\ ypc = "ready" /\ recs \in RecordLists /\ report = NoReport /\ rerun = NoReport
    /\ prior = None /\ comparison = NoComparison /\ answer = NoAnswer
    /\ IdleDemo /\ IdlePanel

SynthNext ==
    \/ Y_Synthesize
    \/ Y_Resynthesize
    \/ \E snap \in Priors : Y_Compare(snap)
    \/ \E i \in 1..2 : Y_Ask(i)

SynthSpec == InitSynth /\ [][SynthNext]_vars

IdleBackend ==
    /\ IdleJson /\ IdleCollector /\ IdleScrape
    /\ now = 0 /\ exhausted = {} /\ nreq = 0 /\ gap = <<>> /\ inflight = 0
    /\ IdleSynth

\* the hook on a route of the demo mode, before its first effect
InitDemo ==
    /\ entry = "demo"
    /\ IdleBackend /\ IdlePanel
    /\ \E route \in Routes, store \in Stores :
          /\ params = Params(route[1], route[2], store.role)
          /\ db = store.rows
    /\ demoConfig \in DemoConfigs
    /\ state = InitialState
    /\ pollIntervalRef = 0 /\ elapsedIntervalRef = 0 /\ timers = {} /\ sessions = 0
    /\ pending = NoPending

DemoNext ==
    \/ D_Mount
    \/ D_ManualCheck
    \/ D_StartPolling
    \/ D_StopPolling
    \/ \E t \in timers : D_PollTick(t)
    \/ \E t \in timers : D_ElapsedTick(t)
    \/ \E answered \in BOOLEAN : D_PollResponse(answered)
    \/ \E answered \in BOOLEAN : D_DemoResponse(answered)
    \/ \E answered \in BOOLEAN : D_UuidResponse(answered)

DemoSpec == InitDemo /\ [][DemoNext]_vars

\* the closed panel of a dashboard that shows a report
InitPanel ==
    /\ entry = "panel"
    /\ IdleBackend /\ IdleDemo /\ IdlePanel

PanelNext ==
    \/ P_Open
    \/ P_Close
    \/ \E feedback \in PanelAreas : P_SelectFeedback(feedback)
    \/ \E query \in Questions, via \in {"send", "enter", "suggestion"} : P_Submit(query, via)
    \/ \E call \in asks, outcome \in CallOutcomes : P_Answer(call, outcome)

PanelSpec == InitPanel /\ [][PanelNext]_vars

----------------------------------------------------------------------------
(* Properties of the collector *)

WindowStartMs == WindowStart(now) * 1000

InWindow(rec) == IsSome(rec.createdAt) /\ rec.createdAt[1] >= WindowStartMs

\* C1: the list a collector call returns holds at most maxItems records
C1_AtMostMaxItems ==
    cpc = "done" => Len(cret.items) <= maxItems

\* more recent posts were accumulated than maxItems, and the result was cut
C1_Witness ==
    /\ cpc = "done"
    /\ Len(allPosts) > maxItems
    /\ Len(cret.items) = maxItems

----------------------------------------------------------------------------
(* Properties of fetchRedditJson *)

EventsOf(log, e) == {i \in 1..Len(log) : log[i].ev = e}

RateLimitedOnly(log) ==
    \A i \in 1..Len(log) : log[i].ev \notin {"r403", "httperr", "neterr"}

\* C3: a call whose answers so far were k < retries times 429 has sent one request
\* per answer (plus the one in flight), has slept the fixed cool-down right after
\* every 429 and before the next request, has not ended without a payload, and ends
\* with the payload as soon as a request succeeds: after k 429s and a success it has
\* sent exactly k + 1 requests
C3_RetryAfterRateLimit ==
    LET k == Cardinality(EventsOf(jlog, "r429"))
        sent == Cardinality(EventsOf(jlog, "request"))
    IN  (jpc # "idle" /\ RateLimitedOnly(jlog) /\ k < DefaultRetries) =>
           /\ \A i \in EventsOf(jlog, "r429") :
                 /\ i < Len(jlog)
                 /\ jlog[i + 1] = Ev("sleep", RateLimitCooldown)
                 /\ i + 2 <= Len(jlog) => jlog[i + 2].ev = "jitter"
                 /\ \A j \in EventsOf(jlog, "request") :
                       j > i => j > i + 1
           /\ jpc = "done" =>
                 /\ jret = JsonValue
                 /\ jlog[Len(jlog)].ev = "ok"
                 /\ sent = k + 1
           /\ jpc = "try" => sent = k
           /\ jpc = "wait" => sent = k + 1

\* 429, 429, success: three requests, two cool-downs, the payload returned
C3_Witness ==
    /\ jpc = "done"
    /\ jret = JsonValue
    /\ RateLimitedOnly(jlog)
    /\ Cardinality(EventsOf(jlog, "r429")) = 2
    /\ Cardinality(EventsOf(jlog, "request")) = 3
    /\ Cardinality({i \in 1..Len(jlog) : jlog[i] = Ev("sleep", RateLimitCooldown)}) = 2

----------------------------------------------------------------------------
(* Properties of smartScrape *)

Names(subs) == [i \in 1..Len(subs) |-> subs[i].name]

NameSet(subs) == {subs[i].name : i \in 1..Len(subs)}

RECURSIVE Concat(_)
Concat(ss) == IF Len(ss) = 0 THEN <<>> ELSE Head(ss) \o Concat(Tail(ss))

\* C4: when smartScrape has returned, every source that had a page request still
\* answered 429 or 403 on its last attempt has an entry with an error
C4_ExhaustedSourceHasError ==
    (spc = "done" /\ ~sret.threw) =>
        \A n \in exhausted :
            /\ n \in DOMAIN sret.subredditResults
            /\ sret.subredditResults[n].error

\* C5: with at least one source discovered smartScrape returns and does not throw;
\* the sources are handed to the collector in discovery order, none is skipped,
\* subredditResults has an entry for every discovered source, and the mentions are
\* the kept posts of all sources, in order
C5_EverySourceAttempted ==
    /\ spc \in {"loop", "awaitSub"} =>
          /\ Len(attempted) = (IF spc = "loop" THEN subIdx - 1 ELSE subIdx)
          /\ attempted = SubSeq(Names(discovery.subreddits), 1, Len(attempted))
          /\ allMentions = Concat(kept)
    /\ (spc = "done" /\ Len(discovery.subreddits) > 0) =>
          /\ ~sret.threw
          /\ attempted = Names(discovery.subreddits)
          /\ DOMAIN sret.subredditResults = NameSet(discovery.subreddits)
          /\ Len(kept) = Len(discovery.subreddits)
          /\ sret.mentions = Concat(kept)

\* two sources: requests of one ran out of attempts, the other one gave posts
C5_Witness ==
    /\ spc = "done"
    /\ Len(discovery.subreddits) = 2
    /\ exhausted # {}
    /\ \E i \in 1..2 : kept[i] = <<>> /\ discovery.subreddits[i].name \in exhausted
    /\ Len(sret.mentions) > 0

RequestsOfCall == Cardinality(EventsOf(jlog, "request"))

SourcesKnown == entry = "smart" /\ spc # "discover"

PerCallBound ==
    /\ RequestsOfCall <= DefaultRetries
    /\ pageReqs <= fetchCount + 1
    /\ pageReqs <= CeilDiv(maxItems, PageLimit)

\* C6 as stated: at most retries requests per call, a failed page is not requested
\* again, and a run sends at most sources x ceil(maxItems / 25) x retries requests
C6_AsStated ==
    /\ PerCallBound
    /\ entry # "smart" => nreq <= CeilDiv(maxItems, PageLimit) * DefaultRetries
    /\ SourcesKnown =>
          nreq <= Len(discovery.subreddits)
                    * CeilDiv(opts.maxItemsPerSubreddit, PageLimit) * DefaultRetries

RunBound ==
    /\ entry # "smart" => nreq <= CeilDiv(maxItems, PageLimit) * DefaultRetries
    /\ SourcesKnown =>
          nreq <= IF Len(discovery.subreddits) = 0
                  THEN CeilDiv(WideMaxItems, PageLimit) * DefaultRetries
                  ELSE Len(discovery.subreddits)
                         * CeilDiv(opts.maxItemsPerSubreddit, PageLimit) * DefaultRetries

\* C6: at most retries requests per call, a failed page is not requested again, a
\* run sends at most sources x ceil(maxItems / 25) x retries requests, or at most
\* ceil(50 / 25) x retries when no source was discovered, and every run ends
C6_BoundedRetries == [](PerCallBound /\ RunBound) /\ <>RunDone

\* a page request that used all its attempts, in a run that has ended
C6_Witness ==
    /\ RunDone
    /\ nreq >= DefaultRetries
    /\ pageReqs = fetchCount + 1
    /\ ~lastOk

----------------------------------------------------------------------------
(* The relevance filter *)

SameLetter(a, b) == LowerChar(a) = LowerChar(b)

ContainsIgnoringCase(text, term) ==
    \E i \in 0..(Len(text) - Len(term)) :
        \A j \in 1..Len(term) : SameLetter(text[i + j], term[j])

TextOf(post) ==
    (IF IsSome(post.title) THEN post.title[1] ELSE <<>>) \o <<" ">> \o post.body

Mentions(post, terms) ==
    \E t \in 1..Len(terms) : ContainsIgnoringCase(TextOf(post), terms[t])

Ids(posts) == [i \in 1..Len(posts) |-> posts[i].sourceId]

\* the step of smartScrape that takes the posts of one source
TakesPosts == spc = "awaitSub" /\ spc' = "loop"

\* the mentions that step added
Added == SubSeq(allMentions', Len(allMentions) + 1, Len(allMentions'))

CurrentSub == discovery.subreddits[subIdx]

KeepsMatching ==
    /\ Ids(Added) = Ids(SelectSeq(cret.items,
                                  LAMBDA p : Mentions(p, discovery.searchTerms)))
    /\ subredditResults'[CurrentSub.name].total = Len(cret.items)
    /\ subredditResults'[CurrentSub.name].relevant = Len(Added)

KeepsAll ==
    /\ Ids(Added) = Ids(cret.items)
    /\ subredditResults'[CurrentSub.name].total = Len(cret.items)
    /\ subredditResults'[CurrentSub.name].relevant = Len(cret.items)

\* C7 as stated: of a secondary source exactly the posts that mention a search term
\* are kept, in every run; of a primary source all posts are kept
C7_AsStated ==
    [][TakesPosts =>
          IF CurrentSub.relevance = "secondary" THEN KeepsMatching ELSE KeepsAll]_vars

\* C7: with filterSecondary on (the default), of a secondary source exactly the posts
\* whose title and body mention a search term, ignoring case, are kept, total is the
\* number collected and relevant the number kept; of a primary source, and of every
\* source when filterSecondary is off, all posts are kept and relevant = total
C7_SecondaryFiltered ==
    [][TakesPosts =>
          IF opts.filterSecondary /\ CurrentSub.relevance = "secondary"
          THEN KeepsMatching ELSE KeepsAll]_vars

\* a secondary source gave two posts, one of them mentions the company
C7_Witness ==
    /\ opts.filterSecondary
    /\ \E n \in DOMAIN subredditResults :
          /\ subredditResults[n].relevance = "secondary"
          /\ subredditResults[n].total = 2
          /\ subredditResults[n].relevant = 1

----------------------------------------------------------------------------
(* Pagination *)

HasCursor(page) == TruthyStr(page.after)

\* the page has items with a creation time, and the newest of them is older than
\* the window
NewestOld(page, ts) ==
    /\ \E i \in 1..Len(page.children) : IsSome(page.children[i].created_utc)
    /\ \A i \in 1..Len(page.children) :
          IsSome(page.children[i].created_utc) => page.children[i].created_utc[1] < ts

\* a page was read, and now another page is requested
FollowUp == cpc = "loop" /\ cpc' = "await" /\ pageReqs >= 1

\* a page was read, and the loop is left
Stops ==
    \/ cpc = "loop" /\ cpc' = "done" /\ pageReqs >= 1
    \/ cpc = "await" /\ cpc' = "done" /\ lastOk'

\* C8 as stated, the conditions on which no further page is requested: another page
\* is requested only if the last page carried a cursor, fewer than maxItems posts are
\* accumulated and the newest item of the last page is not older than the window,
\* and it is requested with the cursor of the last page
C8_AsStated ==
    [][FollowUp =>
          /\ HasCursor(data)
          /\ Len(allPosts) < maxItems
          /\ ~NewestOld(data, oneDayAgoTimestamp)
          /\ reqAfter' = data.after]_vars

\* C8: after a page no further page is requested if the page carried no cursor, if
\* it had no items, if maxItems posts of the window are accumulated, or if
\* ceil(maxItems / 25) pages have been read; otherwise the next page is requested with
\* the cursor of the page, also when all items of the page are older than the window
C8_PaginationStops ==
    [][ /\ FollowUp =>
              /\ lastOk
              /\ HasCursor(data)
              /\ ~NoChildren(data)
              /\ Len(allPosts) < maxItems
              /\ fetchCount < CeilDiv(maxItems, PageLimit)
              /\ reqAfter' = data.after
        /\ Stops =>
              \/ ~HasCursor(data')
              \/ NoChildren(data')
              \/ Len(allPosts') >= maxItems
              \/ fetchCount' >= CeilDiv(maxItems, PageLimit)
        /\ (cpc = "await" /\ cpc' = "loop") =>
              /\ HasCursor(data')
              /\ ~NoChildren(data') ]_vars

\* the second page is requested after a first page with nothing but old items
C8_Witness ==
    /\ cpc = "await"
    /\ pageReqs = 2
    /\ NewestOld(data, oneDayAgoTimestamp)
    /\ reqAfter = data.after

----------------------------------------------------------------------------
(* Discovery *)

LLMConsulted == entry = "smart" /\ spc # "discover" /\ ~UsesQuick(opts)

\* C9: when discoverSubreddits threw, smartScrape goes on with the result of
\* quickDiscoverSubreddits: the failure is not thrown by smartScrape, and the sources
\* of the heuristic list are the ones handed to the collector
C9_DiscoveryFailureCaught ==
    discThrew =>
        /\ discovery = quickDiscoverSubreddits(company, quickList)
        /\ attempted = SubSeq(Names(quickList), 1, Len(attempted))
        /\ sret.threw => Len(quickList) = 0
        /\ (spc = "done" /\ Len(quickList) > 0) =>
              /\ ~sret.threw
              /\ attempted = Names(quickList)

\* the service failed, and the two sources of the heuristic list were scraped
C9_Witness ==
    /\ spc = "done"
    /\ llmOut.failed
    /\ discThrew
    /\ ~sret.threw
    /\ Len(attempted) = 2

LLMListInvalid ==
    /\ ~llmOut.failed
    /\ Len(llmOut.subs) = 0 \/ ~NoDuplicates(llmOut.subs)

----------------------------------------------------------------------------
(* The Reddit-wide search, pacing, serialization *)

NoSources == entry = "smart" /\ spc \in {"wide", "done"} /\ Len(discovery.subreddits) = 0

\* C11: when discovery gave no source, smartScrape returns a result (it does not
\* throw), whatever the upstream source does to the Reddit-wide search; the result
\* has an empty subredditResults map and an empty source list
C11_WideSearchReturns ==
    (NoSources /\ spc = "done") =>
        /\ ~sret.threw
        /\ sret.subredditResults = <<>>
        /\ sret.discovery.subreddits = <<>>

Last(s) == s[Len(s)]

\* a first attempt that is not the first request of the run
FollowUpRequest == jpc = "try" /\ attempt = 1 /\ nreq >= 1

\* C12: every request is preceded by the jitter sleep; the first request of a page
\* after the first is preceded by exactly the fixed delay since the request before,
\* and the first request of a source after the first by the fixed delay as the last
\* sleep, whatever happened to the source before
C12_Paced ==
    /\ \A i \in EventsOf(jlog, "request") : i > 1 /\ jlog[i - 1].ev = "jitter"
    /\ FollowUpRequest =>
          /\ Len(gap) > 0
          /\ Last(gap) = RATE_LIMIT_DELAY
          /\ pageReqs >= 2 => gap = <<RATE_LIMIT_DELAY>>

\* the second source is about to be requested after the requests of the first one
\* ran out of attempts on 429
C12_Witness ==
    /\ FollowUpRequest
    /\ Len(attempted) = 2
    /\ attempted[1] \in exhausted
    /\ gap = <<RateLimitCooldown, RATE_LIMIT_DELAY>>

\* C13: at most one upstream request is in flight, a request is in flight exactly
\* while fetchRedditJson waits for its answer, and a request or retry is sent only
\* when none is in flight
C13_Serialized ==
    /\ inflight \in {0, 1}
    /\ inflight = 1 <=> jpc = "wait"
    /\ jpc = "try" => inflight = 0

\* the retry of the second page of a source is in flight
C13_Witness ==
    /\ entry = "smart"
    /\ jpc = "wait"
    /\ attempt = 2
    /\ pageReqs = 2
    /\ inflight = 1

----------------------------------------------------------------------------
(* Records *)

Results == IF cpc = "done" THEN cret.items ELSE <<>>

WellDefinedDefaults(rec) ==
    /\ ~Includes(rec.sourceUrl, <<"undefined">>)
    /\ Len(rec.sourceUrl) > 0
    /\ Len(rec.author) > 0
    /\ rec.upvotes >= 0
    /\ rec.commentCount >= 0

\* C14: every record the normalizer produced has a well-defined value in each field:
\* a non-empty author, counters that are numbers, and a URL that is not built from
\* an undefined permalink
C14_NormalizerDefaults ==
    \A i \in 1..Len(Results) : WellDefinedDefaults(Results[i])

Unique(rs) ==
    \A i, j \in 1..Len(rs) :
        (rs[i].source = rs[j].source /\ rs[i].sourceId = rs[j].sourceId) => i = j

\* C15: the records of one collector call, and the mentions of one smartScrape, hold
\* no two records with the same (source, sourceId)
C15_UniqueRecords ==
    /\ Unique(Results)
    /\ Unique(allMentions)
    /\ Unique(sret.mentions)

----------------------------------------------------------------------------
(* Properties of the Synthesizer, the Comparer and the assistant fallback *)

Synthesized == ypc \in {"synthesized", "rerun", "compared", "asked"}

Compared == ypc \in {"compared", "asked"}

\* q is num / den rounded to the nearest integer, a half upwards
RoundsTo(q, num, den) == 2 * den * q - den <= 2 * num /\ 2 * num < 2 * den * q + den

\* score is (0.4 r + 0.3 s + 0.3 v) / n in tenths, rounded and clamped to [0, 100]
IsImpactOf(score, r, s, v, n) ==
    \E q \in -20..130 :
        /\ RoundsTo(q, 4 * r + 3 * s + 3 * v, 10 * n)
        /\ score = (IF q < 0 THEN 0 ELSE IF q > 100 THEN 100 ELSE q)

MemberValues(key, field) ==
    LET m == SelectSeq(recs, LAMBDA r : r.key = key)
    IN  [i \in 1..Len(m) |-> m[i][field]]

InRange(x) == x >= 0 /\ x <= 100

\* C16: the impact score of every focus area is 0.4 reach + 0.3 sentiment +
\* 0.3 velocity of the mean sub-scores of its members, and the score of every
\* ImpactData the same of its own breakdown, rounded to one decimal and clamped to
\* [0, 10]; the sub-scores 8, 6, 4 give 6.2; the score always lies in [0, 10]
C16_ImpactScoreFormula ==
    ypc = "synthesized" =>
        /\ \A i \in 1..Len(report.focusAreas) :
              LET fa == report.focusAreas[i]
              IN  /\ IsImpactOf(fa.impactScore,
                                SumOf(MemberValues(fa.title, "reach")),
                                SumOf(MemberValues(fa.title, "sentimentScore")),
                                SumOf(MemberValues(fa.title, "velocity")),
                                Len(MemberValues(fa.title, "reach")))
                  /\ InRange(fa.impactScore)
        /\ \A i \in 1..Len(report.rawScores) :
              LET d == report.rawScores[i].impactData
                  b == d.breakdown
              IN  /\ IsImpactOf(d.score, b.reach.value, b.sentiment.value, b.velocity.value, 1)
                  /\ InRange(d.score)
                  /\ <<b.reach.weight, b.sentiment.weight, b.velocity.weight>> = <<4, 3, 3>>
                  /\ <<b.reach.value, b.sentiment.value, b.velocity.value>> = <<80, 60, 40>>
                        => d.score = 62

\* a record with the sub-scores 8, 6, 4 scored 6.2 next to one whose sub-scores of 12
\* were clamped to 10
C16_Witness ==
    /\ ypc = "synthesized"
    /\ \E i, j \in 1..Len(report.rawScores) :
          /\ report.rawScores[i].impactData.breakdown.reach.value = 80
          /\ report.rawScores[i].impactData.breakdown.velocity.value = 40
          /\ report.rawScores[i].impactData.score = 62
          /\ report.rawScores[j].impactData.breakdown.reach.value = 120
          /\ report.rawScores[j].impactData.score = 100

SeverityRank(label) ==
    CASE label = "Low" -> 1
      [] label = "Medium" -> 2
      [] label = "High" -> 3
      [] label = "Critical" -> 4
      [] OTHER -> 0

PriorityRank(level) ==
    CASE level = "Lower Priority" -> 1
      [] level = "Medium Priority" -> 2
      [] level = "High Priority" -> 3
      [] level = "Critical Priority" -> 4
      [] OTHER -> 0

Band(score) == IF score >= 80 THEN 4 ELSE IF score >= 60 THEN 3 ELSE IF score >= 40 THEN 2 ELSE 1

\* C17: every focus area has exactly one of the four labels, the one of the bands
\* >= 8 Critical, >= 6 High, >= 4 Medium, else Low; of two focus areas the one with
\* the lower score never has the higher rank; and the priority level of the
\* assistant fallback is the one of the same bands
C17_SeverityMonotonic ==
    /\ Synthesized =>
          /\ \A i \in 1..Len(report.focusAreas) :
                SeverityRank(report.focusAreas[i].severityLabel)
                    = Band(report.focusAreas[i].impactScore)
          /\ \A i, j \in 1..Len(report.focusAreas) :
                report.focusAreas[i].impactScore <= report.focusAreas[j].impactScore
                    => SeverityRank(report.focusAreas[i].severityLabel)
                          <= SeverityRank(report.focusAreas[j].severityLabel)
    /\ ypc = "asked" =>
          /\ PriorityRank(answer.priorityLevel) = Band(answer.impactScore)
          /\ PriorityRank(answer.priorityLevel) = SeverityRank(answer.severityLabel)

\* the assistant was asked about a focus area of exactly 8.0, next to one of 7.9
C17_Witness ==
    /\ ypc = "asked"
    /\ answer.impactScore = 80
    /\ answer.priorityLevel = "Critical Priority"
    /\ \E i \in 1..Len(report.focusAreas) :
          /\ report.focusAreas[i].impactScore = 79
          /\ report.focusAreas[i].severityLabel = "High"

CountIn(sentiment) == Len(SelectSeq(recs, LAMBDA r : r.sentiment = sentiment))

PlainShare(value, sentiment) == RoundsTo(value, 100 * CountIn(sentiment), Len(recs))

\* C18: the three sentiment percentages of a report are not negative and sum to
\* exactly 100; each is the rounded share of its class, except that a class with
\* the most records may carry the correction
C18_SentimentSums100 ==
    Synthesized =>
        LET sm == report.sentiment
            off == {c \in {"positive", "neutral", "negative"} : ~PlainShare(sm[c], c)}
        IN  /\ sm.positive + sm.neutral + sm.negative = 100
            /\ sm.positive >= 0 /\ sm.neutral >= 0 /\ sm.negative >= 0
            /\ Cardinality(off) <= 1
            /\ \A c \in off : \A d \in {"positive", "neutral", "negative"} :
                                  CountIn(c) >= CountIn(d)

\* one positive, one neutral and four negative records: 17 + 17 + 67 is corrected
C18_Witness ==
    /\ Synthesized
    /\ Len(recs) = 6
    /\ CountIn("positive") = 1
    /\ CountIn("neutral") = 1
    /\ report.sentiment = [positive |-> 17, neutral |-> 17, negative |-> 66]

AllNew ==
    /\ \A i \in 1..Len(report.focusAreas) : report.focusAreas[i].trend = "new"
    /\ Len(comparison.changes.newIssues) = Len(report.focusAreas)
    /\ comparison.changes.resolvedIssues = <<>>
    /\ comparison.changes.improvedIssues = <<>>
    /\ comparison.changes.worsenedIssues = <<>>

ScoresOf(rep) ==
    {<<rep.focusAreas[i].title, rep.focusAreas[i].impactScore>> :
        i \in 1..Len(rep.focusAreas)}

QuadrantsOf(rep) ==
    {<<rep.priorityMatrix[i].title, rep.priorityMatrix[i].quadrant>> :
        i \in 1..Len(rep.priorityMatrix)}

----------------------------------------------------------------------------
(* Properties of askThreader *)

Failed(outcome) == outcome \notin {"ok", "ok-empty"}

AssistantReplies == {i \in 1..Len(messages) : messages[i].role = "assistant" /\ ~messages[i].isFeedbackPanel}

\* C21: askThreader never rejects: a call whose request to the edge function
\* failed (network error, status outside 2xx, unreadable body) resolves with the
\* answer of the local generator for the same request and with an error
\* message, a call that succeeded resolves with the answer of the service and
\* without an error; so the panel never shows its own apology.
C21_NeverRejects ==
    /\ \A c \in replies :
          /\ ~c.response.rejected
          /\ IF Failed(c.outcome)
             THEN /\ c.response.answer.by = "local"
                  /\ c.response.answer = generateLocalResponse(c.request)
                  /\ c.response.error = Some(ErrorMessage(c.outcome))
             ELSE /\ c.response.answer.by = "service"
                  /\ c.response.error = None
    /\ \A i \in AssistantReplies : messages[i].content # Apology

\* a failed call about a selected focus area was answered by the local
\* generator, and another call was answered by the service
C21_Witness ==
    /\ \E c \in replies : /\ c.outcome = "neterr"
                           /\ IsSome(c.request.selectedFeedback)
                           /\ c.response.answer.template = "prioritization"
    /\ \E c \in replies : c.outcome = "ok"


----------------------------------------------------------------------------
(* Properties of useDemoMode: polling *)

TimersOf(kind) == {t \in timers : t.kind = kind}

NoTimers == timers = {} /\ pollIntervalRef = 0 /\ elapsedIntervalRef = 0

\* C22: polling is bounded: while the status is 'polling' fewer than
\* MAX_POLL_COUNT polls were counted, and while the status is 'timeout'
\* isPolling is false, both timers are cleared and no interval is left that
\* would issue a further poll.
C22_PollingBounded ==
    /\ state.status = "polling" => state.pollCount < MAX_POLL_COUNT
    /\ state.status = "timeout" => ~state.isPolling /\ NoTimers

\* the user called manualCheck or startPolling in this step
UserTriggers == pending'.demo > pending.demo \/ sessions' > sessions

\* C23: once the status is 'success' it stays 'success' with the same report
\* and the poll count is not incremented, until the user calls manualCheck or
\* startPolling: no timer tick and no late answer leaves 'success'.
C23_SuccessIsStable ==
    [][ state.status = "success" /\ ~UserTriggers
        => /\ state'.status = "success"
           /\ state'.pollCount <= state.pollCount ]_vars

\* C24: at most one poll timer and one elapsed-time timer exist, no poll timer
\* is active while isPolling is false, and pollCount never exceeds maxPolls.
C24_OneTimerEach ==
    /\ Cardinality(TimersOf("poll")) <= 1
    /\ Cardinality(TimersOf("elapsed")) <= 1
    /\ ~state.isPolling => TimersOf("poll") = {}
    /\ state.pollCount <= state.maxPolls


----------------------------------------------------------------------------
(* Properties of useDemoMode: what is loaded *)

FromStore == state.dataSource \in {"supabase", "supabase-uuid"} /\ IsSome(state.synthesis)

\* C25: in UUID mode the report of the state is the one fetched by the UUID
\* of the route (reportId = uuid, dataSource = 'supabase-uuid') or none; no
\* operation replaces it with a report looked up by company name.
C25_UuidPrecedence ==
    isUuidMode /\ IsSome(state.synthesis)
        => state.reportId = params.reportUuid /\ state.dataSource = "supabase-uuid"

\* the rows the lookup key of a data source names
RowsOfUuid == {r \in db : IsSome(params.reportUuid) /\ r.id = params.reportUuid[1]}
RowsOfCompany ==
    {r \in db : /\ IsSome(params.companyParam)
                /\ ToLowerCase(r.company_name) = ToLowerCase(params.companyParam[1])}

RowsOfSource == IF state.dataSource = "supabase-uuid" THEN RowsOfUuid ELSE RowsOfCompany

ShowsPublicRow ==
    FromStore => \E r \in RowsOfSource : r.is_public /\ r.report_data = state.synthesis[1]

OnlyNonPublic(rows) == rows # {} /\ \A r \in rows : ~r.is_public

\* C26 as stated: a report with dataSource 'supabase' or 'supabase-uuid' comes
\* from a public row, and a UUID or company name that matches only non-public
\* rows never reaches status 'success'.
C26_AsStated ==
    /\ ShowsPublicRow
    /\ isUuidMode /\ OnlyNonPublic(RowsOfUuid) => state.status # "success"
    /\ ~isUuidMode /\ OnlyNonPublic(RowsOfCompany) => state.status # "success"

\* C26: a report with dataSource 'supabase' or 'supabase-uuid' is the report
\* of a public row that the lookup key names, the report of a non-public row
\* is never in the state, and a key that names only non-public rows gives no
\* state with its data source: what such a lookup can still reach is 'no-data',
\* 'timeout', or 'success' from demo-config.json or from the other key.
C26_PublicOnly ==
    /\ ShowsPublicRow
    /\ \A r \in db : ~r.is_public => state.synthesis # Some(r.report_data)
    /\ OnlyNonPublic(RowsOfUuid) => ~(state.status = "success" /\ state.dataSource = "supabase-uuid")
    /\ OnlyNonPublic(RowsOfCompany) => ~(state.status = "success" /\ state.dataSource = "supabase")

\* a signed-in visitor, whom the row policies let read the non-public report
\* of the route, was answered 'no-data'
C26_Witness ==
    /\ params.role = "authenticated" /\ ~IsSome(params.companyParam)
    /\ OnlyNonPublic(RowsOfUuid)
    /\ state.status = "no-data" /\ pending = NoPending

\* a request of fetchDemoData or of the UUID load is sent in this step
StartsLoad == pending'.demo > pending.demo \/ pending'.uuid > pending.uuid

\* C28: status 'success' implies a report in the state, and every operation
\* that starts a new load (fetchDemoData, the UUID load) sets synthesis to null
\* and the status to 'loading'.
C28_SuccessHasSynthesis ==
    /\ [](state.status = "success" => IsSome(state.synthesis))
    /\ [][StartsLoad => state'.synthesis = None /\ state'.status = "loading"]_vars

\* a poll after the first found the report
C28_Witness ==
    /\ state.status = "success" /\ state.dataSource = "supabase" /\ state.pollCount > 1
    /\ IsSome(state.synthesis)

\* C29: DemoContent renders exactly one view in every reachable state of the
\* hook.
C29_ExactlyOneView == Cardinality(Views(state)) = 1

----------------------------------------------------------------------------
(* Properties of AskThreaderPanel *)

\* C27: while the panel is closed the message list is empty and no feedback
\* is selected; an answer that arrives after the close is not added.
C27_ClosedIsEmpty ==
    ~isOpen => messages = <<>> /\ currentFeedback = None /\ selectedFeedback = None

Awaited(n) == \E call \in asks : call.n = n
RepliesTo(n) == {c \in replies : c.n = n}

\* C30: isLoading is true exactly while a question awaits its answer, and
\* every submitted question is either awaited or has exactly one reply.
C30_LoadingWhileAwaiting ==
    /\ isLoading <=> asks # {}
    /\ \A n \in 1..asked : IF Awaited(n) THEN RepliesTo(n) = {}
                                           ELSE Cardinality(RepliesTo(n)) = 1

====
